---------------------------- MODULE Spec2Model ----------------------------
(***************************************************************************)
(* Model of pkg/exec/cli.go: `pyroscope exec`.  Cli resolves a spy name,   *)
(* runs the preflight checks, spawns the target in its own process group,  *)
(* starts a profiling session after a fixed grace period and then          *)
(* supervises the target in waitForProcessToExit, which races a one-second *)
(* ticker (process table poll) against the shutdown hook's notification.   *)
(*                                                                         *)
(* Time is discrete, one unit per second.  A step of the program takes no  *)
(* time; time passes only while Cli is blocked (time.Sleep, select) or     *)
(* after it has finished.  PID reuse is not modelled: the target's pid     *)
(* names the target only.                                                  *)
(***************************************************************************)
EXTENDS Naturals, Sequences, FiniteSets

(************************* program constants *******************************)
\* time.Sleep(5 * time.Second), cli.go:77
GracePeriod == 5
\* time.NewTicker(time.Second), cli.go:96
TickInterval == 1

(******************************* bounds ************************************)
\* the registry holds at most this many spy names
MaxSupported == 2
\* the clocks that measure elapsed time stop counting at this value
MaxElapsed == 3
\* liveness polls are counted up to this value
MaxPolls == 2

(**************************** input domains ********************************)
\* spy names a registry may hold
SpyNames == {"gospy", "rbspy", "pyspy"}
\* values of cfg.Exec.SpyName: "auto", registry names, an unknown name
CfgSpyNames == SpyNames \cup {"auto", "nospy"}
\* a path is its elements (split at "/") and whether it starts at the root
RubyPath == [abs |-> TRUE, elems |-> <<"usr", "bin", "ruby">>]
AppPath == [abs |-> FALSE, elems |-> <<"app">>]
FlagArg == [abs |-> FALSE, elems |-> <<"-v">>]
\* argument vectors handed to Cli
ArgVectors == {<<>>, <<RubyPath>>, <<AppPath, FlagArg>>}
\* basenames the argument vectors produce
BaseNames == {"ruby", "app"}
\* the two pids of the target's process group: the target (group leader)
\* and a subprocess the target may fork
TargetPid == "target"
SubPid == "subproc"

VARIABLES
    args,                 \* Cli's args
    cfgSpyName,           \* cfg.Exec.SpyName
    SupportedSpies,       \* spy.SupportedSpies, a sequence without repeats
    autoDetectionMapping, \* spy.ResolveAutoName's table: basename -> name or ""
    pc,                   \* Cli's position
    spyName,              \* Cli's local spyName
    err,                  \* what Cli returned: "pending", "nil" or an error
    errSuggested,         \* the spy named by the suggested command of the error
    errAvailable,         \* the "Available spies" list of the error
    sigchldIgnored,       \* signal.Ignore(syscall.SIGCHLD) has run
    procState,            \* pid -> "none" | "running" | "zombie" | "gone"
    sigkilled,            \* pids a SIGKILL was sent to
    killCalls,            \* number of cmd.Process.Kill() calls
    uState,               \* upstream client: "none" | "running" | "stopped"
    uStopCalls,           \* number of u.Stop() calls
    sessState,            \* session: "none" | "started" | "stopped"
    sessStartCalls,       \* number of sess.Start() calls
    sessStopCalls,        \* number of sess.Stop() calls
    deferred,             \* Cli's stack of deferred calls
    supState,             \* supervisor: "NotEntered" | "Monitoring" | "Terminated"
    termEvents,           \* the TerminationEvents produced, in order
    polls,                \* number of ps.FindProcess calls (up to MaxPolls)
    lastPoll,             \* result of the latest ps.FindProcess: "none" before any
    registered,           \* atexit.Register has run
    shutdownRequested,    \* the process got its termination request
    requestSeenTarget,    \* the target had been spawned when the request came
    cbState,              \* registered callback: "idle" | "sending" | "done"
    sleepLeft,            \* seconds left of time.Sleep
    tickerStarted,        \* time.NewTicker has run
    tickLeft,             \* seconds until the ticker fires next
    tickPending,          \* t.C (capacity 1) holds a tick
    sinceExit,            \* seconds since the target exited (up to MaxElapsed)
    sinceEntry            \* seconds since the ticker was started (up to MaxElapsed)

inputVars == <<args, cfgSpyName, SupportedSpies, autoDetectionMapping>>
cliVars == <<pc, spyName, err, errSuggested, errAvailable, deferred>>
osVars == <<sigchldIgnored, procState, sigkilled, killCalls>>
agentVars == <<uState, uStopCalls, sessState, sessStartCalls, sessStopCalls>>
supVars == <<supState, termEvents, polls, lastPoll>>
hookVars == <<registered, shutdownRequested, requestSeenTarget, cbState>>
timeVars == <<sleepLeft, tickerStarted, tickLeft, tickPending, sinceExit, sinceEntry>>
vars == <<inputVars, cliVars, osVars, agentVars, supVars, hookVars, timeVars>>

(***************************** helpers *************************************)
Range(s) == {s[i] : i \in 1..Len(s)}

\* sequences over S of length at most n without repeated elements
RECURSIVE DistinctSeqs(_, _)
DistinctSeqs(S, n) ==
    IF n = 0 THEN {<<>>}
    ELSE LET shorter == DistinctSeqs(S, n - 1)
         IN shorter \cup {Append(s, x) : s \in shorter, x \in S}

NoRepeats(s) == Cardinality(Range(s)) = Len(s)

Min(a, b) == IF a < b THEN a ELSE b

(************************* the spy registry *********************************)
\* spy.SupportedExecSpies(): the supported spies that can attach to another
\* process, in registry order
SupportedExecSpies == SelectSeq(SupportedSpies, LAMBDA s : s /= "gospy")

\* spy.ResolveAutoName(baseName): the registry's spy for a basename, "" if none
ResolveAutoName(baseName) ==
    IF baseName \in DOMAIN autoDetectionMapping
    THEN autoDetectionMapping[baseName] ELSE ""

(************************ pure functions of cli.go *************************)
\* path.Base: the last element; "." for the empty path, "/" for the root
Base(p) ==
    IF Len(p.elems) = 0 THEN (IF p.abs THEN "/" ELSE ".")
    ELSE p.elems[Len(p.elems)]

\* stringsContains that reports every element as present
stringsContains_AlwaysFound(arr, element) == TRUE

\* stringsContains(arr, element)
stringsContains(arr, element) == \E i \in 1..Len(arr) : arr[i] = element

\* performChecks with the gospy check left out
performChecks_SupportedOnly(name) ==
    IF \E i \in 1..Len(SupportedSpies) : SupportedSpies[i] = name
    THEN "nil" ELSE "SpyNotSupported"

\* performChecks(spyName): "nil" or the error it returns.  The darwin branch
\* only logs and is left out.
performChecks(name) ==
    IF name = "gospy" THEN "GospyCannotProfileOthers"
    ELSE IF ~stringsContains(SupportedSpies, name) THEN "SpyNotSupported"
    ELSE "nil"

(******************************* Init **************************************)
Init ==
    /\ args \in ArgVectors
    /\ cfgSpyName \in CfgSpyNames
    /\ SupportedSpies \in {s \in DistinctSeqs(SpyNames, MaxSupported) : NoRepeats(s)}
    /\ autoDetectionMapping \in [BaseNames -> SpyNames \cup {""}]
    /\ pc = "start"
    /\ spyName = ""
    /\ err = "pending"
    /\ errSuggested = ""
    /\ errAvailable = <<>>
    /\ deferred = <<>>
    /\ sigchldIgnored = FALSE
    /\ procState = [p \in {TargetPid, SubPid} |-> "none"]
    /\ sigkilled = {}
    /\ killCalls = 0
    /\ uState = "none"
    /\ uStopCalls = 0
    /\ sessState = "none"
    /\ sessStartCalls = 0
    /\ sessStopCalls = 0
    /\ supState = "NotEntered"
    /\ termEvents = <<>>
    /\ polls = 0
    /\ lastPoll = "none"
    /\ registered = FALSE
    /\ shutdownRequested = FALSE
    /\ requestSeenTarget = FALSE
    /\ cbState = "idle"
    /\ sleepLeft = 0
    /\ tickerStarted = FALSE
    /\ tickLeft = 0
    /\ tickPending = FALSE
    /\ sinceExit = 0
    /\ sinceEntry = 0

(************************* Cli, before the spawn ***************************)
\* CheckArgs with the len(args) == 0 check left out
CheckArgs_NoCheck ==
    /\ pc = "start"
    /\ pc' = "resolve"
    /\ UNCHANGED <<spyName, err, errSuggested, errAvailable, deferred>>
    /\ UNCHANGED <<inputVars, osVars, agentVars, supVars, hookVars, timeVars>>

\* cli.go:27-29
CheckArgs ==
    /\ pc = "start"
    /\ IF Len(args) = 0
       THEN /\ err' = "NoArguments"
            /\ pc' = "done"
       ELSE /\ err' = err
            /\ pc' = "resolve"
    /\ UNCHANGED <<spyName, errSuggested, errAvailable, deferred>>
    /\ UNCHANGED <<inputVars, osVars, agentVars, supVars, hookVars, timeVars>>

\* cli.go:31-48.  supportedSpies[0] on an empty list is a run-time panic.
ResolveSpy ==
    /\ pc = "resolve"
    /\ LET resolved == IF cfgSpyName = "auto"
                       THEN ResolveAutoName(Base(args[1]))
                       ELSE cfgSpyName
       IN /\ spyName' = resolved
          /\ IF cfgSpyName = "auto" /\ resolved = ""
             THEN IF Len(SupportedExecSpies) = 0
                  THEN /\ err' = "PanicIndexOutOfRange"
                       /\ pc' = "panicked"
                       /\ UNCHANGED <<errSuggested, errAvailable>>
                  ELSE /\ err' = "NoAutoMatch"
                       /\ errSuggested' = SupportedExecSpies[1]
                       /\ errAvailable' = SupportedExecSpies
                       /\ pc' = "done"
             ELSE /\ pc' = "checks"
                  /\ UNCHANGED <<err, errSuggested, errAvailable>>
    /\ UNCHANGED deferred
    /\ UNCHANGED <<inputVars, osVars, agentVars, supVars, hookVars, timeVars>>

\* cli.go:52-54
PerformChecks ==
    /\ pc = "checks"
    /\ LET e == performChecks(spyName)
       IN IF e /= "nil"
          THEN /\ err' = e
               /\ errAvailable' = (IF e = "SpyNotSupported"
                                   THEN SupportedExecSpies ELSE errAvailable)
               /\ pc' = "done"
          ELSE /\ pc' = "ignore"
               /\ UNCHANGED <<err, errAvailable>>
    /\ UNCHANGED <<spyName, errSuggested, deferred>>
    /\ UNCHANGED <<inputVars, osVars, agentVars, supVars, hookVars, timeVars>>

\* IgnoreSigchld with the signal.Ignore call left out
IgnoreSigchld_Skipped ==
    /\ pc = "ignore"
    /\ pc' = "spawn"
    /\ UNCHANGED <<spyName, err, errSuggested, errAvailable, deferred>>
    /\ UNCHANGED <<inputVars, osVars, agentVars, supVars, hookVars, timeVars>>

\* cli.go:56
IgnoreSigchld ==
    /\ pc = "ignore"
    /\ sigchldIgnored' = TRUE
    /\ pc' = "spawn"
    /\ UNCHANGED <<spyName, err, errSuggested, errAvailable, deferred>>
    /\ UNCHANGED <<procState, sigkilled, killCalls>>
    /\ UNCHANGED <<inputVars, agentVars, supVars, hookVars, timeVars>>

(*************************** the operating system **************************)
\* the target's process group (Setpgid: the target leads a group of its own,
\* which its subprocesses inherit)
ProcessGroup == {p \in {TargetPid, SubPid} : procState[p] /= "none"}

\* what a process becomes when it ends: the kernel reaps a child at once when
\* its parent ignores SIGCHLD, and keeps it as a zombie otherwise.  The
\* subprocess is not a child of the supervisor.
Ended(p) == IF p = TargetPid /\ ~sigchldIgnored THEN "zombie" ELSE "gone"

\* the process table after SIGKILL has been delivered to the pids in ps
AfterSigkill(ps) ==
    [p \in DOMAIN procState |->
        IF p \in ps /\ procState[p] = "running" THEN Ended(p) ELSE procState[p]]

\* os.Process.Kill(): SIGKILL to the one pid of cmd.Process
KillTargets == {TargetPid}

\* ps.FindProcess(pid): "found" while the pid has a process table entry,
\* "nil" when it has none, "err" when reading the table fails
FindProcessResults(p) ==
    (IF procState[p] \in {"running", "zombie"} THEN {"found"} ELSE {"nil"})
        \cup {"err"}

TargetExited == procState[TargetPid] \in {"zombie", "gone"}

(*********************** Cli, from the spawn on ****************************)
\* errors cmd.Start() may return
StartErrors == {"ENOENT", "EACCES"}

\* Spawn with the `if err != nil { return err }` left out
Spawn_ErrorIgnored ==
    /\ pc = "spawn"
    /\ \E res \in {"ok", "ENOENT", "EACCES"} :
         procState' = [procState EXCEPT ![TargetPid] =
                          IF res = "ok" THEN "running" ELSE @]
    /\ pc' = "upstream"
    /\ UNCHANGED <<spyName, err, errSuggested, errAvailable, deferred>>
    /\ UNCHANGED <<sigchldIgnored, sigkilled, killCalls>>
    /\ UNCHANGED <<inputVars, agentVars, supVars, hookVars, timeVars>>

\* cli.go:58-67: cmd.Start() succeeds, or fails and its error is returned
Spawn ==
    /\ pc = "spawn"
    /\ \E res \in {"ok"} \cup StartErrors :
         IF res = "ok"
         THEN /\ procState' = [procState EXCEPT ![TargetPid] = "running"]
              /\ pc' = "upstream"
              /\ err' = err
         ELSE /\ procState' = procState
              /\ pc' = "done"
              /\ err' = res
    /\ UNCHANGED <<spyName, errSuggested, errAvailable, deferred>>
    /\ UNCHANGED <<sigchldIgnored, sigkilled, killCalls>>
    /\ UNCHANGED <<inputVars, agentVars, supVars, hookVars, timeVars>>

\* cli.go:68-77: remote.New, defer u.Stop(), and time.Sleep begins
NewUpstream ==
    /\ pc = "upstream"
    /\ uState' = "running"
    /\ deferred' = Append(deferred, "u.Stop")
    /\ sleepLeft' = GracePeriod
    /\ pc' = "sleep"
    /\ UNCHANGED <<spyName, err, errSuggested, errAvailable>>
    /\ UNCHANGED <<uStopCalls, sessState, sessStartCalls, sessStopCalls>>
    /\ UNCHANGED <<tickerStarted, tickLeft, tickPending, sinceExit, sinceEntry>>
    /\ UNCHANGED <<inputVars, osVars, supVars, hookVars>>

\* StartSession with `defer sess.Stop()` left out
StartSession_NoDefer ==
    /\ pc = "sleep"
    /\ sleepLeft = 0
    /\ sessState' = "started"
    /\ sessStartCalls' = sessStartCalls + 1
    /\ pc' = "register"
    /\ UNCHANGED <<spyName, err, errSuggested, errAvailable, deferred>>
    /\ UNCHANGED <<uState, uStopCalls, sessStopCalls>>
    /\ UNCHANGED <<inputVars, osVars, supVars, hookVars, timeVars>>

\* StartSession with `sess.Start()` left out
StartSession_NoStart ==
    /\ pc = "sleep"
    /\ sleepLeft = 0
    /\ deferred' = Append(deferred, "sess.Stop")
    /\ pc' = "register"
    /\ UNCHANGED <<spyName, err, errSuggested, errAvailable>>
    /\ UNCHANGED agentVars
    /\ UNCHANGED <<inputVars, osVars, supVars, hookVars, timeVars>>

\* cli.go:77-81: time.Sleep returns; agent.NewSession, sess.Start(),
\* defer sess.Stop()
StartSession ==
    /\ pc = "sleep"
    /\ sleepLeft = 0
    /\ sessState' = "started"
    /\ sessStartCalls' = sessStartCalls + 1
    /\ deferred' = Append(deferred, "sess.Stop")
    /\ pc' = "register"
    /\ UNCHANGED <<spyName, err, errSuggested, errAvailable>>
    /\ UNCHANGED <<uState, uStopCalls, sessStopCalls>>
    /\ UNCHANGED <<inputVars, osVars, supVars, hookVars, timeVars>>

(************************* waitForProcessToExit ****************************)
\* cli.go:89-94: the supervisor is entered; sigc is made and the callback
\* is registered with atexit
Register ==
    /\ pc = "register"
    /\ supState' = "Monitoring"
    /\ registered' = TRUE
    /\ pc' = "ticker"
    /\ UNCHANGED <<spyName, err, errSuggested, errAvailable, deferred>>
    /\ UNCHANGED <<termEvents, polls, lastPoll, shutdownRequested, requestSeenTarget, cbState>>
    /\ UNCHANGED <<inputVars, osVars, agentVars, timeVars>>

\* cli.go:96
NewTicker ==
    /\ pc = "ticker"
    /\ tickerStarted' = TRUE
    /\ tickLeft' = TickInterval
    /\ sinceEntry' = 0
    /\ pc' = "select"
    /\ UNCHANGED <<spyName, err, errSuggested, errAvailable, deferred>>
    /\ UNCHANGED <<sleepLeft, tickPending, sinceExit>>
    /\ UNCHANGED <<inputVars, osVars, agentVars, supVars, hookVars>>

\* SelectShutdown with the `return` after the kill left out
SelectShutdown_NoReturn ==
    /\ pc = "select"
    /\ cbState = "sending"
    /\ cbState' = "done"
    /\ killCalls' = killCalls + 1
    /\ sigkilled' = sigkilled \cup {p \in {TargetPid} : procState[p] = "running"}
    /\ procState' = [procState EXCEPT ![TargetPid] =
                        IF @ = "running" THEN "gone" ELSE @]
    /\ termEvents' = Append(termEvents, "ExternalShutdownRequested")
    /\ UNCHANGED <<pc, supState>>
    /\ UNCHANGED <<spyName, err, errSuggested, errAvailable, deferred>>
    /\ UNCHANGED <<sigchldIgnored, polls, lastPoll, registered, shutdownRequested, requestSeenTarget>>
    /\ UNCHANGED <<inputVars, agentVars, timeVars>>

\* cli.go:99-101: the callback's send on sigc is received; kill and return
SelectShutdown ==
    /\ pc = "select"
    /\ cbState = "sending"
    /\ cbState' = "done"
    /\ killCalls' = killCalls + 1
    /\ sigkilled' = sigkilled \cup {p \in KillTargets : procState[p] = "running"}
    /\ procState' = AfterSigkill(KillTargets)
    /\ termEvents' = Append(termEvents, "ExternalShutdownRequested")
    /\ supState' = "Terminated"
    /\ pc' = "return"
    /\ UNCHANGED <<spyName, err, errSuggested, errAvailable, deferred>>
    /\ UNCHANGED <<sigchldIgnored, polls, lastPoll, registered, shutdownRequested, requestSeenTarget>>
    /\ UNCHANGED <<inputVars, agentVars, timeVars>>

\* SelectTick that returns only when the target is not found, and polls
\* again after a failed query
SelectTick_RetryOnError ==
    /\ pc = "select"
    /\ tickPending
    /\ tickPending' = FALSE
    /\ polls' = IF polls + 1 < MaxPolls THEN polls + 1 ELSE MaxPolls
    /\ \E res \in FindProcessResults(TargetPid) :
         /\ lastPoll' = res
         /\ IF res = "nil"
            THEN /\ termEvents' = Append(termEvents, "ProcessObservedDead")
                 /\ supState' = "Terminated"
                 /\ pc' = "return"
            ELSE /\ UNCHANGED <<termEvents, supState, pc>>
    /\ UNCHANGED <<spyName, err, errSuggested, errAvailable, deferred>>
    /\ UNCHANGED <<sleepLeft, tickerStarted, tickLeft, sinceExit, sinceEntry>>
    /\ UNCHANGED <<inputVars, osVars, agentVars, hookVars>>

\* SelectTick with the test on p inverted: it returns while the target is
\* found (or the query fails) and keeps polling once it is gone
SelectTick_ReturnWhenFound ==
    /\ pc = "select"
    /\ tickPending
    /\ tickPending' = FALSE
    /\ polls' = IF polls + 1 < MaxPolls THEN polls + 1 ELSE MaxPolls
    /\ \E res \in FindProcessResults(TargetPid) :
         /\ lastPoll' = res
         /\ IF res \in {"found", "err"}
            THEN /\ termEvents' = Append(termEvents, "ProcessObservedDead")
                 /\ supState' = "Terminated"
                 /\ pc' = "return"
            ELSE /\ UNCHANGED <<termEvents, supState, pc>>
    /\ UNCHANGED <<spyName, err, errSuggested, errAvailable, deferred>>
    /\ UNCHANGED <<sleepLeft, tickerStarted, tickLeft, sinceExit, sinceEntry>>
    /\ UNCHANGED <<inputVars, osVars, agentVars, hookVars>>

\* cli.go:102-106: a tick is received; poll the process table, return when
\* the target is not found or the query fails
SelectTick ==
    /\ pc = "select"
    /\ tickPending
    /\ tickPending' = FALSE
    /\ polls' = Min(polls + 1, MaxPolls)
    /\ \E res \in FindProcessResults(TargetPid) :
         /\ lastPoll' = res
         /\ IF res \in {"nil", "err"}
            THEN /\ termEvents' = Append(termEvents, "ProcessObservedDead")
                 /\ supState' = "Terminated"
                 /\ pc' = "return"
            ELSE /\ UNCHANGED <<termEvents, supState, pc>>
    /\ UNCHANGED <<spyName, err, errSuggested, errAvailable, deferred>>
    /\ UNCHANGED <<sleepLeft, tickerStarted, tickLeft, sinceExit, sinceEntry>>
    /\ UNCHANGED <<inputVars, osVars, agentVars, hookVars>>

(************************* Cli's deferred calls ****************************)
\* cli.go:81: the deferred sess.Stop()
SessStop ==
    /\ pc = "return"
    /\ deferred /= <<>>
    /\ deferred[Len(deferred)] = "sess.Stop"
    /\ deferred' = SubSeq(deferred, 1, Len(deferred) - 1)
    /\ sessState' = "stopped"
    /\ sessStopCalls' = sessStopCalls + 1
    /\ UNCHANGED <<pc, spyName, err, errSuggested, errAvailable>>
    /\ UNCHANGED <<uState, uStopCalls, sessStartCalls>>
    /\ UNCHANGED <<inputVars, osVars, supVars, hookVars, timeVars>>

\* UpstreamStop run in the order the calls were deferred (first in, first
\* out) instead of last in, first out
UpstreamStop_Fifo ==
    /\ pc = "return"
    /\ deferred /= <<>>
    /\ deferred[1] = "u.Stop"
    /\ deferred' = SubSeq(deferred, 2, Len(deferred))
    /\ uState' = "stopped"
    /\ uStopCalls' = uStopCalls + 1
    /\ UNCHANGED <<pc, spyName, err, errSuggested, errAvailable>>
    /\ UNCHANGED <<sessState, sessStartCalls, sessStopCalls>>
    /\ UNCHANGED <<inputVars, osVars, supVars, hookVars, timeVars>>

\* cli.go:73: the deferred u.Stop()
UpstreamStop ==
    /\ pc = "return"
    /\ deferred /= <<>>
    /\ deferred[Len(deferred)] = "u.Stop"
    /\ deferred' = SubSeq(deferred, 1, Len(deferred) - 1)
    /\ uState' = "stopped"
    /\ uStopCalls' = uStopCalls + 1
    /\ UNCHANGED <<pc, spyName, err, errSuggested, errAvailable>>
    /\ UNCHANGED <<sessState, sessStartCalls, sessStopCalls>>
    /\ UNCHANGED <<inputVars, osVars, supVars, hookVars, timeVars>>

\* cli.go:84: return nil, once the deferred calls have run
CliReturn ==
    /\ pc = "return"
    /\ deferred = <<>>
    /\ err' = "nil"
    /\ pc' = "done"
    /\ UNCHANGED <<spyName, errSuggested, errAvailable, deferred>>
    /\ UNCHANGED <<inputVars, osVars, agentVars, supVars, hookVars, timeVars>>

(***************************** environment *********************************)
\* the target ends on its own
TargetExit ==
    /\ procState[TargetPid] = "running"
    /\ procState' = [procState EXCEPT ![TargetPid] = Ended(TargetPid)]
    /\ UNCHANGED <<sigchldIgnored, sigkilled, killCalls>>
    /\ UNCHANGED <<inputVars, cliVars, agentVars, supVars, hookVars, timeVars>>

\* the target forks a subprocess, which stays in the target's process group
TargetFork ==
    /\ procState[TargetPid] = "running"
    /\ procState[SubPid] = "none"
    /\ procState' = [procState EXCEPT ![SubPid] = "running"]
    /\ UNCHANGED <<sigchldIgnored, sigkilled, killCalls>>
    /\ UNCHANGED <<inputVars, cliVars, agentVars, supVars, hookVars, timeVars>>

\* the subprocess ends on its own
SubprocExit ==
    /\ procState[SubPid] = "running"
    /\ procState' = [procState EXCEPT ![SubPid] = Ended(SubPid)]
    /\ UNCHANGED <<sigchldIgnored, sigkilled, killCalls>>
    /\ UNCHANGED <<inputVars, cliVars, agentVars, supVars, hookVars, timeVars>>

\* the process-wide shutdown hook fires, at most once: it invokes the
\* callback registered so far, which blocks in `sigc <- struct{}{}` until
\* the supervisor receives
ShutdownRequest ==
    /\ pc \notin {"done", "panicked"}
    /\ ~shutdownRequested
    /\ shutdownRequested' = TRUE
    /\ requestSeenTarget' = (procState[TargetPid] /= "none")
    /\ cbState' = IF registered THEN "sending" ELSE cbState
    /\ UNCHANGED registered
    /\ UNCHANGED <<inputVars, cliVars, osVars, agentVars, supVars, timeVars>>

\* the ticker fires: a tick is put in t.C unless one is still there
TickerFire ==
    /\ tickerStarted
    /\ tickLeft = 0
    /\ tickPending' = TRUE
    /\ tickLeft' = TickInterval
    /\ UNCHANGED <<sleepLeft, tickerStarted, sinceExit, sinceEntry>>
    /\ UNCHANGED <<inputVars, cliVars, osVars, agentVars, supVars, hookVars>>

\* Cli has nothing to do until time passes
Blocked ==
    \/ pc = "sleep" /\ sleepLeft > 0
    \/ pc = "select" /\ ~tickPending /\ cbState /= "sending"
    \/ pc \in {"done", "panicked"}

\* one second passes
Advance ==
    /\ Blocked
    /\ tickerStarted => tickLeft > 0
    /\ sleepLeft' = IF pc = "sleep" THEN sleepLeft - 1 ELSE sleepLeft
    /\ tickLeft' = IF tickerStarted THEN tickLeft - 1 ELSE tickLeft
    /\ sinceExit' = IF TargetExited THEN Min(sinceExit + 1, MaxElapsed) ELSE sinceExit
    /\ sinceEntry' = IF tickerStarted THEN Min(sinceEntry + 1, MaxElapsed) ELSE sinceEntry
    /\ UNCHANGED <<tickerStarted, tickPending>>
    /\ UNCHANGED <<inputVars, cliVars, osVars, agentVars, supVars, hookVars>>

(************************** the specification ******************************)
Next ==
    \/ CheckArgs
    \/ ResolveSpy
    \/ PerformChecks
    \/ IgnoreSigchld
    \/ Spawn
    \/ NewUpstream
    \/ StartSession
    \/ Register
    \/ NewTicker
    \/ SelectShutdown
    \/ SelectTick
    \/ SessStop
    \/ UpstreamStop
    \/ CliReturn
    \/ TargetExit
    \/ TargetFork
    \/ SubprocExit
    \/ ShutdownRequest
    \/ TickerFire
    \/ Advance

Spec == Init /\ [][Next]_vars

\* The program's own steps are taken when they can be: the Go scheduler
\* runs the one goroutine of Cli, the runtime's timer fires the ticker, and
\* time passes.  Nothing is assumed of the target or of the operator.
Fairness ==
    /\ WF_vars(CheckArgs) /\ WF_vars(ResolveSpy) /\ WF_vars(PerformChecks)
    /\ WF_vars(IgnoreSigchld) /\ WF_vars(Spawn) /\ WF_vars(NewUpstream)
    /\ WF_vars(StartSession) /\ WF_vars(Register) /\ WF_vars(NewTicker)
    /\ WF_vars(SelectShutdown) /\ WF_vars(SelectTick)
    /\ WF_vars(SessStop) /\ WF_vars(UpstreamStop) /\ WF_vars(CliReturn)
    /\ WF_vars(TickerFire) /\ WF_vars(Advance)

\* the runs with one registry: rbspy and pyspy supported, "ruby" detected
\* as rbspy (what the registry holds plays no part after the spawn)
FairInit ==
    /\ Init
    /\ SupportedSpies = <<"rbspy", "pyspy">>
    /\ autoDetectionMapping = [b \in BaseNames |-> IF b = "ruby" THEN "rbspy" ELSE ""]

FairSpec == FairInit /\ [][Next]_vars /\ Fairness

(******************************* claims ************************************)
\* C1: a run of the supervisor produces exactly one TerminationEvent: none
\* before it is Terminated, one once it is; once Terminated it stays
\* Terminated, produces no further event, receives neither the shutdown
\* notification nor a tick, and issues no kill.
C1_ExactlyOneEvent ==
    /\ [](/\ supState = "Terminated" => Len(termEvents) = 1
          /\ supState /= "Terminated" => Len(termEvents) = 0)
    /\ [][supState = "Terminated" =>
            /\ supState' = "Terminated"
            /\ termEvents' = termEvents
            /\ killCalls' = killCalls
            /\ tickPending => tickPending'
            /\ cbState = "sending" => cbState' = "sending"]_vars

\* C1 witness: the supervisor ended on a tick and the shutdown notification
\* is being offered to it afterwards
C1_Witness ==
    /\ supState = "Terminated"
    /\ termEvents = <<"ProcessObservedDead">>
    /\ cbState = "sending"

\* C2: when the supervisor receives the shutdown notification before it
\* handled any tick, it is Terminated, every process of the target's
\* process group has been killed, and no liveness poll is made.
C2_ShutdownKillsGroup ==
    (termEvents = <<"ExternalShutdownRequested">> /\ polls = 0) =>
        /\ supState = "Terminated"
        /\ killCalls = 1
        /\ \A p \in ProcessGroup : procState[p] /= "running"

\* C3 as claimed: more than one timer interval after the target exited on
\* its own, with no shutdown notification delivered to the supervisor, the
\* supervisor has returned with ProcessObservedDead and no kill.
C3_WithinOneIntervalOfExit ==
    (TargetExited /\ cbState /= "done" /\ sinceExit > TickInterval) =>
        /\ supState = "Terminated"
        /\ termEvents = <<"ProcessObservedDead">>
        /\ killCalls = 0

\* C3 amended: the tick the supervisor handles after the target exited makes
\* it return with ProcessObservedDead and without a kill; a run that ended
\* with ProcessObservedDead issued no kill; and the supervisor has returned
\* once more than one timer interval has passed both since the exit and
\* since the ticker was started.
C3_NextTickObservesExit ==
    /\ []((TargetExited /\ cbState /= "done" /\ tickerStarted
             /\ sinceExit > TickInterval /\ sinceEntry > TickInterval) =>
            /\ supState = "Terminated"
            /\ termEvents = <<"ProcessObservedDead">>)
    /\ [](termEvents = <<"ProcessObservedDead">> => killCalls = 0)
    /\ [][(pc = "select" /\ TargetExited /\ tickPending /\ ~tickPending') =>
            /\ supState' = "Terminated"
            /\ termEvents' = <<"ProcessObservedDead">>
            /\ killCalls' = 0]_vars

\* C3 witness: the target exited while the supervisor was monitoring and the
\* supervisor returned within one timer interval of the exit
C3_Witness ==
    /\ supState = "Terminated"
    /\ termEvents = <<"ProcessObservedDead">>
    /\ procState[TargetPid] = "gone"
    /\ sigkilled = {}
    /\ ~shutdownRequested
    /\ sinceEntry > TickInterval
    /\ sinceExit <= TickInterval

\* C4: when Cli has returned from a run that spawned the target, sess.Stop
\* and u.Stop have each been called exactly once; neither is ever called
\* twice.
C4_StopsExactlyOnce ==
    /\ sessStopCalls <= 1
    /\ uStopCalls <= 1
    /\ (pc = "done" /\ procState[TargetPid] /= "none") =>
          (sessStopCalls = 1 /\ uStopCalls = 1)

\* C4 witness: Cli returned after the shutdown path, both stops made once
C4_Witness ==
    /\ pc = "done"
    /\ termEvents = <<"ExternalShutdownRequested">>
    /\ sessStopCalls = 1
    /\ uStopCalls = 1

\* C5: the session is started before the supervisor is entered (before the
\* callback is registered and before the ticker is started), and it is
\* stopped only when the supervisor is Terminated.
C5_StartBeforeStopAfter ==
    /\ (supState /= "NotEntered" \/ registered \/ tickerStarted) =>
          sessStartCalls = 1
    /\ supState = "Monitoring" => sessState = "started"
    /\ (sessStopCalls > 0 \/ sessState = "stopped") => supState = "Terminated"

\* C5 witness: the session was started, the supervisor ran and ended, and
\* the session was stopped
C5_Witness ==
    /\ supState = "Terminated"
    /\ sessStartCalls = 1
    /\ sessState = "stopped"

\* C6: when Cli has returned from a run that spawned the target, the target
\* is not running or a kill has been issued.
C6_NeverLeaked ==
    (pc = "done" /\ procState[TargetPid] /= "none") =>
        (procState[TargetPid] /= "running" \/ killCalls > 0)

\* C7: with a command given and an explicit spy name (not "auto") that is
\* not in SupportedSpies, Cli gets no further than the preflight checks: it
\* returns one of the two unsupported-spy errors of performChecks, and no
\* target is spawned, no upstream client made, no session started.
C7_UnknownSpyNeverSpawns ==
    (Len(args) > 0 /\ cfgSpyName /= "auto"
        /\ ~(\E i \in 1..Len(SupportedSpies) : SupportedSpies[i] = cfgSpyName)) =>
        /\ pc \in {"start", "resolve", "checks", "done"}
        /\ pc = "done" => err \in {"SpyNotSupported", "GospyCannotProfileOthers"}
        /\ cfgSpyName /= "gospy" => err \in {"pending", "SpyNotSupported"}
        /\ procState[TargetPid] = "none"
        /\ uState = "none"
        /\ sessState = "none"
        /\ sessStartCalls = 0

\* C7 witness: Cli returned the not-supported error for an unknown name
C7_Witness ==
    /\ pc = "done"
    /\ err = "SpyNotSupported"
    /\ cfgSpyName = "nospy"
    /\ Len(SupportedSpies) > 0
    /\ procState[TargetPid] = "none"

\* C8: with spy name "auto" and a basename auto-detection has no spy for,
\* Cli returns the no-auto-match error right after resolution, before
\* SIGCHLD is ignored or anything is spawned, and the suggested command
\* names the first supported exec spy, whatever the registry holds.
C8_NoAutoMatchSuggestsSupported ==
    (Len(args) > 0 /\ cfgSpyName = "auto" /\ pc \notin {"start", "resolve"}
        /\ ResolveAutoName(Base(args[1])) = "") =>
        /\ pc = "done"
        /\ err = "NoAutoMatch"
        /\ Len(SupportedExecSpies) > 0
        /\ errSuggested = SupportedExecSpies[1]
        /\ \E i \in 1..Len(SupportedSpies) : SupportedSpies[i] = errSuggested
        /\ ~sigchldIgnored
        /\ procState[TargetPid] = "none"

\* C9: with an empty argument vector Cli returns the no-arguments error in
\* its first step, whatever the configured spy name: no spy is resolved, no
\* preflight error produced, SIGCHLD is not ignored, nothing is spawned.
C9_NoArgumentsImmediately ==
    Len(args) = 0 =>
        /\ pc \in {"start", "done"}
        /\ pc = "done" => err = "NoArguments"
        /\ spyName = ""
        /\ errAvailable = <<>>
        /\ ~sigchldIgnored
        /\ procState[TargetPid] = "none"

\* C9 witness: the no-arguments error with spy name "auto"
C9_Witness ==
    /\ Len(args) = 0
    /\ cfgSpyName = "auto"
    /\ pc = "done"
    /\ err = "NoArguments"

\* C10: once the resolved spy name is gospy, explicit or auto-detected, in
\* SupportedSpies or not, Cli returns the gospy error from the preflight
\* checks, before SIGCHLD is ignored or anything is spawned.
C10_GospyRejected ==
    (spyName = "gospy" /\ pc \notin {"start", "resolve", "checks"}) =>
        /\ pc = "done"
        /\ err = "GospyCannotProfileOthers"
        /\ ~sigchldIgnored
        /\ procState[TargetPid] = "none"
        /\ uState = "none"
        /\ sessState = "none"

\* C10 witness: gospy came from auto-detection, is in SupportedSpies, and
\* was rejected
C10_Witness ==
    /\ cfgSpyName = "auto"
    /\ spyName = "gospy"
    /\ \E i \in 1..Len(SupportedSpies) : SupportedSpies[i] = "gospy"
    /\ pc = "done"
    /\ err = "GospyCannotProfileOthers"

\* C11: when the shutdown notification and a tick are both ready in the
\* supervisor's select, the tick is not the one received.
C11_ShutdownWinsOverTick ==
    [][(pc = "select" /\ cbState = "sending" /\ tickPending) => tickPending']_vars

\* C12: a liveness query that fails is handled like one that finds no
\* process: right after it the supervisor is Terminated with
\* ProcessObservedDead and has left its loop, no kill was issued, and no
\* further tick is received (no retry).
C12_QueryErrorEndsSupervision ==
    /\ [](lastPoll \in {"nil", "err"} =>
            /\ supState = "Terminated"
            /\ termEvents = <<"ProcessObservedDead">>
            /\ pc \in {"return", "done"}
            /\ killCalls = 0)
    /\ [][lastPoll = "err" =>
            /\ lastPoll' = "err"
            /\ tickPending => tickPending'
            /\ killCalls' = 0]_vars

\* C12 witness: the query failed while the target was running and Cli
\* returned without a kill
C12_Witness ==
    /\ lastPoll = "err"
    /\ procState[TargetPid] = "running"
    /\ pc = "done"
    /\ killCalls = 0

\* C13: when cmd.Start() fails Cli returns that error as it is, and no
\* upstream client was made, no session made or started, no grace period
\* slept, no deferred call left, and the supervisor was never entered.
C13_SpawnErrorReturned ==
    /\ (sigchldIgnored /\ pc /= "spawn" /\ procState[TargetPid] = "none") =>
          (pc = "done" /\ err \in StartErrors)
    /\ err \in StartErrors =>
          /\ procState[TargetPid] = "none"
          /\ uState = "none" /\ uStopCalls = 0
          /\ sessState = "none" /\ sessStartCalls = 0 /\ sessStopCalls = 0
          /\ sleepLeft = 0
          /\ deferred = <<>>
          /\ supState = "NotEntered" /\ ~registered /\ ~tickerStarted

\* C13 witness: Cli returned the error of a failed cmd.Start()
C13_Witness ==
    /\ pc = "done"
    /\ err = "EACCES"
    /\ procState[TargetPid] = "none"

\* C14 as claimed: SIGCHLD is ignored only once the target has been spawned,
\* and before the session is started.
C14_IgnoredOnlyAfterSpawn ==
    /\ sigchldIgnored => procState[TargetPid] /= "none"
    /\ sessStartCalls > 0 => sigchldIgnored

\* C14 amended: SIGCHLD is ignored after the preflight checks passed and
\* before the target is spawned (so before the session is started); a run
\* that fails before the spawn is attempted leaves it alone, and a run whose
\* spawn fails has ignored it without spawning anything.
C14_IgnoredBeforeSpawn ==
    /\ procState[TargetPid] /= "none" => sigchldIgnored
    /\ sessStartCalls > 0 => sigchldIgnored
    /\ sigchldIgnored =>
          /\ pc \notin {"start", "resolve", "checks", "ignore", "panicked"}
          /\ err \notin {"NoArguments", "NoAutoMatch", "SpyNotSupported",
                         "GospyCannotProfileOthers", "PanicIndexOutOfRange"}
    /\ pc \in {"spawn", "upstream"} => sigchldIgnored
    /\ err \in StartErrors => (sigchldIgnored /\ procState[TargetPid] = "none")

\* C14 witness: the spawn failed and SIGCHLD is ignored all the same
C14_Witness ==
    /\ pc = "done"
    /\ err \in StartErrors
    /\ sigchldIgnored
    /\ procState[TargetPid] = "none"

\* C15: the registered callback is never left sending on sigc when the
\* supervisor has already returned (nobody would receive).
C15_NoStuckSender ==
    ~(cbState = "sending" /\ supState = "Terminated")

\* C16: when Cli has returned from a run in which a shutdown was requested
\* after the target had been spawned, a kill has been issued.
C16_RequestAfterSpawnKills ==
    (pc = "done" /\ requestSeenTarget) => killCalls > 0

\* C17: every kill issued found the target running.
C17_KillOnlyWhileAlive ==
    killCalls > 0 => TargetPid \in sigkilled

\* C18: with the program's steps, the ticker and time treated fairly, a
\* supervisor that is Monitoring while the target has exited, or while the
\* shutdown callback is offering its notification, reaches Terminated and
\* Cli returns; so it can stay Monitoring for ever only with the target in
\* the process table and no notification offered.
C18_EventuallyReturns ==
    /\ (supState = "Monitoring" /\ (TargetExited \/ cbState = "sending"))
          ~> (supState = "Terminated" /\ pc = "done")
    /\ <>[](supState = "Monitoring") =>
          <>[](procState[TargetPid] = "running" /\ cbState /= "sending")

\* C18 witness: Cli returned after the supervisor saw that the target, which
\* had exited while it was Monitoring, was gone
C18_Witness ==
    /\ pc = "done"
    /\ supState = "Terminated"
    /\ lastPoll = "nil"
    /\ polls > 1
    /\ ~shutdownRequested

\* C19: u.Stop is called only after sess.Stop has been; on the shutdown
\* path neither is called before the kill.
C19_SessionStoppedFirst ==
    /\ uStopCalls > 0 => (sessStopCalls = 1 /\ sessState = "stopped")
    /\ (termEvents = <<"ExternalShutdownRequested">>
          /\ (sessStopCalls > 0 \/ uStopCalls > 0)) => killCalls = 1
    /\ (pc = "done" /\ err = "nil") => (sessState = "stopped" /\ uState = "stopped")

\* C19 witness: on the shutdown path, after the kill, the session has been
\* stopped and the upstream client not yet
C19_Witness ==
    /\ termEvents = <<"ExternalShutdownRequested">>
    /\ killCalls = 1
    /\ sessStopCalls = 1
    /\ uStopCalls = 0
    /\ uState = "running"

=============================================================================
